---- MODULE Spec2Model ----
(***************************************************************************)
(* Model of the two NAT functions of nat_mcp_template:                     *)
(*   read_pdf        (pdf_reader/pdf_reader_function.py)                   *)
(*   summarize_text  (llm_summarizer/llm_summarizer_function.py)           *)
(* A Python text that the code measures, slices, strips or formats (page    *)
(* texts, the extracted text, the text to summarize, the prompt) is the     *)
(* sequence of its Unicode code points, so every character of Python is a   *)
(* character of the model.  Names, dictionary keys and exception messages,  *)
(* which the code only compares or concatenates, are strings.               *)
(***************************************************************************)
EXTENDS Integers, Sequences, FiniteSets, TLC

VARIABLES
  r_cfg,          \* PDFReaderConfig.max_pages: <<>> is None, <<k>> is the int k
  fitz_installed, \* whether "import fitz" succeeds in this environment
  r_pc,           \* position of read_pdf
  r_path,         \* argument pdf_path
  r_doc,          \* the file behind pdf_path, as fitz sees it
  handle_open,    \* doc has been opened and not closed
  open_calls,     \* number of fitz.open calls of the current read_pdf
  r_max_pages,    \* local max_pages
  page_num,       \* loop variable page_num (0-based)
  text_content,   \* local list text_content
  r_result,       \* value returned by read_pdf
  r_exc,          \* exception raised by read_pdf
  s_cfg,          \* LLMSummarizerConfig
  s_pc,           \* position of summarize_text
  s_text,         \* argument text
  s_source,       \* who supplied text: "raw" caller text or "extracted" by read_pdf
  s_prompt,       \* local prompt
  llm_calls,      \* number of llm.ainvoke calls of the current summarize_text
  s_response,     \* local response
  s_fault,        \* the exception llm.ainvoke raised, if any
  s_result,       \* value returned by summarize_text
  s_exc           \* exception raised by summarize_text

rvars == <<r_cfg, fitz_installed, r_pc, r_path, r_doc, handle_open, open_calls,
           r_max_pages, page_num, text_content, r_result, r_exc>>
svars == <<s_cfg, s_pc, s_text, s_source, s_prompt, llm_calls, s_response,
           s_fault, s_result, s_exc>>
vars == <<rvars, svars>>

----------------------------------------------------------------------------
(* Bounds of the model *)

\* most pages a modelled document has
MaxDocPages == 3
\* largest configured max_pages
MaxPagesCfg == 4
\* how far beyond the truncation limit the longest raw text reaches
MaxOverrun == 2000

----------------------------------------------------------------------------
(* Python string helpers *)

Min(a, b) == IF a < b THEN a ELSE b
Max(a, b) == IF a > b THEN a ELSE b

\* the i-th character of a string, 1-based
CharAt(s, i) == SubSeq(s, i, i)

\* s.startswith(p, i-1): p occurs in s at 1-based position i
OccursAt(s, p, i) == i >= 1 /\ i + Len(p) - 1 <= Len(s) /\ SubSeq(s, i, i + Len(p) - 1) = p

\* s.find(p) + 1: the first position of p in s, 0 when absent
Find(s, p) ==
  LET hits == {i \in 1..Len(s) : OccursAt(s, p, i)}
  IN  IF hits = {} THEN 0 ELSE CHOOSE i \in hits : \A j \in hits : i <= j

\* the characters U+0020 to U+005F, and U+0061 to U+007E, in order
ASCII_UPPER ==
  " !\"#$%&'()*+,-./0123456789:;<=>?@ABCDEFGHIJKLMNOPQRSTUVWXYZ[\\]^_"
ASCII_LOWER == "abcdefghijklmnopqrstuvwxyz{|}~"

\* ord(c) of a character of a string literal of the source
Ord(c) ==
  IF c = "\n" THEN 10
  ELSE IF c = "\t" THEN 9
  ELSE IF Find(ASCII_UPPER, c) > 0 THEN 31 + Find(ASCII_UPPER, c)
  ELSE 96 + Find(ASCII_LOWER, c)

\* the text a string literal of the source denotes
Str(lit) == [i \in 1..Len(lit) |-> Ord(CharAt(lit, i))]

\* the code points c with chr(c).isspace(), the characters str.strip() removes
Whitespace ==
  (9..13) \cup (28..32) \cup {133, 160, 5760} \cup (8192..8202)
  \cup {8232, 8233, 8239, 8287, 12288}

\* s.strip()
Strip(s) ==
  LET keep == {i \in 1..Len(s) : s[i] \notin Whitespace}
  IN  IF keep = {} THEN <<>>
      ELSE SubSeq(s, CHOOSE i \in keep : \A j \in keep : i <= j,
                     CHOOSE i \in keep : \A j \in keep : i >= j)

\* truth value of a str
Truthy(s) == Len(s) > 0

RECURSIVE NatToStr(_)
NatToStr(n) ==
  IF n < 10 THEN <<48 + n>>
  ELSE NatToStr(n \div 10) \o <<48 + (n % 10)>>

\* str(n) of an int
IntToStr(n) == IF n < 0 THEN <<45>> \o NatToStr(-n) ELSE NatToStr(n)

\* sep.join(list)
RECURSIVE Join(_, _)
Join(sep, list) ==
  IF list = <<>> THEN <<>>
  ELSE IF Len(list) = 1 THEN list[1]
  ELSE list[1] \o sep \o Join(sep, Tail(list))

\* s[:n]
Prefix(s, n) == SubSeq(s, 1, Min(Len(s), n))

\* s * n
RECURSIVE Repeat(_, _)
Repeat(s, n) ==
  IF n = 0 THEN <<>>
  ELSE LET h == Repeat(s, n \div 2)
       IN  IF n % 2 = 0 THEN h \o h ELSE h \o h \o s

----------------------------------------------------------------------------
(* Exceptions *)

\* An exception a callee raises is a record of its class (kind: the class's
\* name, qualified by its module unless it is a builtin), its message
\* (msg: str(e)) and the names of the classes type(e).__mro__ lists, object
\* left out (mro). An exception that leaves read_pdf or summarize_text is
\* a record of its class, its message and the class of its __context__.
EXCEPTION_MRO == <<"Exception", "BaseException">>
Exc(kind, bases, msg) == [kind |-> kind, msg |-> msg, mro |-> <<kind>> \o bases]

\* isinstance(e, cls), the test an except clause makes
IsInstance(e, cls) == \E i \in 1..Len(e.mro) : e.mro[i] = cls

NoExc == [kind |-> "None", msg |-> "", context |-> "None"]

----------------------------------------------------------------------------
(* read_pdf *)

NO_TEXT_SENTINEL == Str("No text content found in PDF")

\* what the file system and PyMuPDF can present
MissingPath == "missing.pdf"
ExistingPath == "report.pdf"
Paths == {ExistingPath, MissingPath}

\* Path(pdf_path).exists()
PathExists(path) == path = ExistingPath

\* page texts: empty; whitespace only (space, \n, NBSP, EM SPACE, VT);
\* text inside ASCII whitespace; a non-ASCII letter inside
\* IDEOGRAPHIC SPACE and NEL
PageTexts ==
  { <<>>, <<32, 10, 160, 8195, 11>>, Str(" b\n"), <<12288, 233, 133>> }
\* a page is its get_text() outcome: a text, or a fault raised by PyMuPDF
Pages == [ok : {TRUE}, text : PageTexts] \cup {[ok |-> FALSE, text |-> <<>>]}
PageFault == Exc("FitzError", <<"RuntimeError">> \o EXCEPTION_MRO, "cannot extract page text")
OpenFault == Exc("FileDataError", <<"RuntimeError">> \o EXCEPTION_MRO, "Failed to open file")
\* exceptions "import fitz" raises when PyMuPDF cannot be imported: the
\* module is absent, its extension module fails to load, or the metadata
\* of its distribution is absent
ImportFaults ==
  { Exc("ModuleNotFoundError", <<"ImportError">> \o EXCEPTION_MRO, "No module named 'fitz'"),
    Exc("ImportError", EXCEPTION_MRO, "libmupdf.so: cannot open shared object file"),
    Exc("importlib.metadata.PackageNotFoundError",
        <<"ModuleNotFoundError", "ImportError">> \o EXCEPTION_MRO,
        "No package metadata was found for PyMuPDF") }

PageLists == UNION {[1..n -> Pages] : n \in 0..MaxDocPages}
Docs == [openable : {TRUE}, pages : PageLists] \cup {[openable |-> FALSE, pages |-> <<>>]}
NoDoc == [openable |-> FALSE, pages |-> <<>>]

MaxPagesValues == {<<>>} \cup {<<k>> : k \in (-1)..MaxPagesCfg}

\* config.max_pages or len(doc)
MaxPagesOr(mp, n) == IF mp = <<>> \/ mp[1] = 0 THEN n ELSE mp[1]

\* len(range(min(len(doc), max_pages)))
LoopBound(n, mp) == Max(0, Min(n, mp))

\* f"--- Page {page_num + 1} ---\n{text}"
PageBlock(pn, text) == Str("--- Page ") \o IntToStr(pn + 1) \o Str(" ---\n") \o text

\* AppendPage with the blocks numbered by their place in the result
AppendPageRenumbered(tc, pn, text) ==
  IF Truthy(Strip(text)) THEN Append(tc, PageBlock(Len(tc), text)) ELSE tc

\* the loop body's update of text_content
AppendPage(tc, pn, text) ==
  IF Truthy(Strip(text)) THEN Append(tc, PageBlock(pn, text)) ELSE tc

\* ReadResult without the empty-result check
ReadResultNoSentinel(tc) == Join(Str("\n\n"), tc)

\* lines 85-91: the value read_pdf returns
ReadResult(tc) ==
  LET full_text == Join(Str("\n\n"), tc)
  IN  IF ~Truthy(Strip(full_text)) THEN NO_TEXT_SENTINEL ELSE full_text

IMPORT_ERROR_MSG == "PyMuPDF not installed. Please install with: pip install PyMuPDF"

\* whether "except Exception" catches e
IsException(e) == IsInstance(e, "Exception")

\* whether "except ImportError" catches e
IsImportError(e) == IsInstance(e, "ImportError")

\* the two except clauses of read_pdf: what leaves read_pdf when e is raised
\* inside its try block
ReaderExcept(e) ==
  IF IsImportError(e)
  THEN [kind |-> "RuntimeError", msg |-> IMPORT_ERROR_MSG, context |-> e.kind]
  ELSE IF IsException(e)
  THEN [kind |-> "RuntimeError", msg |-> "Error reading PDF: " \o e.msg, context |-> e.kind]
  ELSE [kind |-> e.kind, msg |-> e.msg, context |-> "None"]

ReaderRaise(e) ==
  /\ r_pc' = "raised"
  /\ r_exc' = ReaderExcept(e)

ReadPdfCall(path, doc) ==
  /\ r_pc = "idle"
  /\ s_pc = "idle"
  /\ r_pc' = "import"
  /\ r_path' = path
  /\ r_doc' = IF PathExists(path) THEN doc ELSE NoDoc
  /\ UNCHANGED <<r_cfg, fitz_installed, handle_open, open_calls, r_max_pages,
                 page_num, text_content, r_result, r_exc>>
  /\ UNCHANGED svars

\* import fitz
ImportFitz ==
  /\ r_pc = "import"
  /\ IF fitz_installed
     THEN r_pc' = "exists" /\ UNCHANGED r_exc
     ELSE \E e \in ImportFaults : ReaderRaise(e)
  /\ UNCHANGED <<r_cfg, fitz_installed, r_path, r_doc, handle_open, open_calls,
                 r_max_pages, page_num, text_content, r_result>>
  /\ UNCHANGED svars

\* if not path.exists(): raise FileNotFoundError
CheckExists ==
  /\ r_pc = "exists"
  /\ IF PathExists(r_path)
     THEN r_pc' = "open" /\ UNCHANGED r_exc
     ELSE ReaderRaise(Exc("FileNotFoundError", <<"OSError">> \o EXCEPTION_MRO,
                          "PDF file not found: " \o r_path))
  /\ UNCHANGED <<r_cfg, fitz_installed, r_path, r_doc, handle_open, open_calls,
                 r_max_pages, page_num, text_content, r_result>>
  /\ UNCHANGED svars

\* doc = fitz.open(pdf_path); text_content = []; max_pages = ...
OpenDoc ==
  /\ r_pc = "open"
  /\ open_calls' = open_calls + 1
  /\ IF r_doc.openable
     THEN /\ r_pc' = "loop"
          /\ handle_open' = TRUE
          /\ text_content' = <<>>
          /\ r_max_pages' = MaxPagesOr(r_cfg, Len(r_doc.pages))
          /\ page_num' = 0
          /\ UNCHANGED r_exc
     ELSE /\ ReaderRaise(OpenFault)
          /\ UNCHANGED <<handle_open, text_content, r_max_pages, page_num>>
  /\ UNCHANGED <<r_cfg, fitz_installed, r_path, r_doc, r_result>>
  /\ UNCHANGED svars

\* one iteration of the for loop
ExtractPage ==
  /\ r_pc = "loop"
  /\ page_num < LoopBound(Len(r_doc.pages), r_max_pages)
  /\ LET page == r_doc.pages[page_num + 1]
     IN  IF page.ok
         THEN /\ text_content' = AppendPage(text_content, page_num, page.text)
              /\ page_num' = page_num + 1
              /\ UNCHANGED <<r_pc, r_exc>>
         ELSE /\ ReaderRaise(PageFault)
              /\ UNCHANGED <<text_content, page_num>>
  /\ UNCHANGED <<r_cfg, fitz_installed, r_path, r_doc, handle_open, open_calls,
                 r_max_pages, r_result>>
  /\ UNCHANGED svars

\* doc.close() and the return
CloseAndReturn ==
  /\ r_pc = "loop"
  /\ page_num >= LoopBound(Len(r_doc.pages), r_max_pages)
  /\ handle_open' = FALSE
  /\ r_result' = ReadResult(text_content)
  /\ r_pc' = "returned"
  /\ UNCHANGED <<r_cfg, fitz_installed, r_path, r_doc, open_calls, r_max_pages,
                 page_num, text_content, r_exc>>
  /\ UNCHANGED svars

----------------------------------------------------------------------------
(* summarize_text *)

\* the bound of text[:10000] and of len(text) > 10000
TRUNCATE_AT == 10000

\* Python values the backend can hand back: t is the type, s is str(value)
PyStr(s) == [t |-> "str", s |-> s]
PyNone == [t |-> "none", s |-> "None"]
PyInt(s) == [t |-> "int", s |-> s]
PyList(s) == [t |-> "list", s |-> s]

\* type(v).__name__
TypeName(v) == IF v.t = "none" THEN "NoneType" ELSE v.t

\* whether len(v) is defined
HasLen(v) == v.t \in {"str", "list"}

SUMMARY_TEXT == "## Summary\nShort."

\* a response: whether it has a content attribute, that attribute, and str(response)
Responses ==
  { [has_content |-> FALSE, content |-> PyNone, repr |-> SUMMARY_TEXT],
    [has_content |-> FALSE, content |-> PyNone, repr |-> "{'text': 'Short.'}"],
    [has_content |-> TRUE, content |-> PyStr(SUMMARY_TEXT), repr |-> "content='## Summary\\nShort.'"],
    [has_content |-> TRUE, content |-> PyStr(""), repr |-> "content=''"],
    [has_content |-> TRUE, content |-> PyNone, repr |-> "content=None"],
    [has_content |-> TRUE, content |-> PyInt("5"), repr |-> "content=5"],
    [has_content |-> TRUE, content |-> PyList("['Short.']"), repr |-> "content=['Short.']"] }
NoResponse == [has_content |-> FALSE, content |-> PyNone, repr |-> ""]

\* exceptions llm.ainvoke can raise
BackendFaults ==
  { Exc("TimeoutError", <<"OSError">> \o EXCEPTION_MRO, "request timed out"),
    Exc("ValueError", EXCEPTION_MRO, "rate limited"),
    Exc("concurrent.futures._base.CancelledError",
        <<"concurrent.futures._base.Error">> \o EXCEPTION_MRO, "worker cancelled"),
    Exc("ExceptionGroup", <<"BaseExceptionGroup">> \o EXCEPTION_MRO,
        "unhandled errors in a TaskGroup (1 sub-exception)"),
    Exc("asyncio.exceptions.CancelledError", <<"BaseException">>, "cancelled"),
    Exc("KeyboardInterrupt", <<"BaseException">>, "") }
\* what is thrown into summarize_text while it is suspended in the await:
\* CancelledError when its task is cancelled, GeneratorExit when its
\* coroutine is closed
Interruptions ==
  { Exc("asyncio.exceptions.CancelledError", <<"BaseException">>, ""),
    Exc("GeneratorExit", <<"BaseException">>, "") }
NoFault == [kind |-> "None", msg |-> "", mro |-> <<>>]

KnownStyles == {"brief", "comprehensive", "detailed"}
Styles == KnownStyles \cup {"extreme", "Brief", ""}
SummaryLengths == {500, 50}
SummarizerConfigs ==
  [summary_style : Styles, include_key_points : BOOLEAN, max_summary_length : SummaryLengths]
DefaultSummarizerConfig ==
  [summary_style |-> "comprehensive", include_key_points |-> TRUE, max_summary_length |-> 500]

\* the dict style_instructions
style_instructions ==
  [s \in KnownStyles |->
     CASE s = "brief" -> Str("Create a brief, concise summary in 2-3 sentences.")
       [] s = "comprehensive" -> Str("Create a comprehensive summary that captures all major points.")
       [] s = "detailed" -> Str("Create a detailed summary with thorough analysis of all key aspects.")]

\* StyleInstruction with the wrong default
StyleInstructionDefaultBrief(style) ==
  IF style \in DOMAIN style_instructions
  THEN style_instructions[style]
  ELSE style_instructions["brief"]

\* style_instructions.get(config.summary_style, style_instructions["comprehensive"])
StyleInstruction(style) ==
  IF style \in DOMAIN style_instructions
  THEN style_instructions[style]
  ELSE style_instructions["comprehensive"]

KeyPointsInstruction(kp) ==
  IF kp THEN Str("\n\nAfter the summary, provide 5-7 key points as bullet points.") ELSE <<>>

\* the replacement field of lines 100-102
KeyPointsFormat(kp) ==
  IF kp THEN Str("## Key Points") \o <<10>> \o Str("- [Point 1]") \o <<10>>
             \o Str("- [Point 2]") \o <<10>> \o Str("...")
  ELSE <<>>

\* {text[:10000]}
Excerpt(text) == Prefix(text, TRUNCATE_AT)

\* TruncationMarker with the comparison off by one
TruncationMarkerAtLimit(text) == IF Len(text) >= TRUNCATE_AT THEN Str("...") ELSE <<>>

\* {"..." if len(text) > 10000 else ""}
TruncationMarker(text) == IF Len(text) > TRUNCATE_AT THEN Str("...") ELSE <<>>

PROMPT_HEAD ==
  Str("You are an expert at analyzing and summarizing documents.\n\nPlease analyze the following text and provide a summary.\n\n")
SOURCE_HEADER == Str("Text to summarize:\n---\n")
\* literal text of line 106 that follows the replacement field
AFTER_EXCERPT == Str("  # Limit input to avoid token limits\n")
PROMPT_TAIL == Str("\n---\n\nSummary:")

\* the f-string of lines 89-110
BuildPrompt(cfg, text) ==
  PROMPT_HEAD
  \o StyleInstruction(cfg.summary_style)
  \o Str("\nTarget length: approximately ") \o IntToStr(cfg.max_summary_length)
  \o Str(" words.")
  \o KeyPointsInstruction(cfg.include_key_points)
  \o Str("\n\nFormat your response as:\n\n## Summary\n[Your summary here]\n")
  \o KeyPointsFormat(cfg.include_key_points)
  \o Str("\n\n") \o SOURCE_HEADER
  \o Excerpt(text) \o AFTER_EXCERPT
  \o TruncationMarker(text)
  \o PROMPT_TAIL

\* lines 118-121
Normalize(response) ==
  IF response.has_content THEN response.content ELSE PyStr(response.repr)

\* SummarizerExcept losing the exception it handles
SummarizerExceptNoCause(e) ==
  [kind |-> "RuntimeError", msg |-> "Error generating summary", context |-> "None"]

\* the except clause of summarize_text
SummarizerExcept(e) ==
  [kind |-> "RuntimeError", msg |-> "Error generating summary: " \o e.msg, context |-> e.kind]

\* what leaves summarize_text when e is raised inside its try block
SummarizerRaised(e) ==
  IF IsException(e) THEN SummarizerExcept(e)
  ELSE [kind |-> e.kind, msg |-> e.msg, context |-> "None"]

\* texts a caller passes directly
Pattern(n) == Prefix(Repeat(Str("abcdefghij"), (n \div 10) + 1), n)
RawTextLengths ==
  {0, 5, TRUNCATE_AT - 1, TRUNCATE_AT, TRUNCATE_AT + 1, TRUNCATE_AT + MaxOverrun}
\* the last is a non-ASCII letter, NBSP and EM SPACE
RawTexts == {Pattern(n) : n \in RawTextLengths} \cup {Str("Wait..."), <<233, 160, 8195>>}

SummarizeCall(text, source) ==
  /\ s_pc = "idle"
  /\ s_text' = text
  /\ s_source' = source
  /\ s_prompt' = BuildPrompt(s_cfg, text)
  /\ s_pc' = "invoke"
  /\ UNCHANGED <<s_cfg, llm_calls, s_response, s_fault, s_result, s_exc>>
  /\ UNCHANGED rvars

\* the caller passes its own text
SummarizeRaw ==
  /\ r_pc = "idle"
  /\ \E text \in RawTexts : SummarizeCall(text, "raw")

\* the caller passes on what read_pdf returned
SummarizeExtracted ==
  /\ r_pc = "returned"
  /\ SummarizeCall(r_result, "extracted")

\* llm.ainvoke(prompt) is called and summarize_text suspends in the await
InvokeBackend ==
  /\ s_pc = "invoke"
  /\ llm_calls' = llm_calls + 1
  /\ s_pc' = "awaiting"
  /\ UNCHANGED <<s_cfg, s_text, s_source, s_prompt, s_response, s_fault, s_result, s_exc>>
  /\ UNCHANGED rvars

\* response = await llm.ainvoke(prompt), the backend answering
BackendAnswers ==
  /\ s_pc = "awaiting"
  /\ \E response \in Responses : s_response' = response
  /\ s_pc' = "normalize"
  /\ UNCHANGED <<s_cfg, s_text, s_source, s_prompt, llm_calls, s_fault, s_result, s_exc>>
  /\ UNCHANGED rvars

\* response = await llm.ainvoke(prompt), the backend raising
BackendRaises ==
  /\ s_pc = "awaiting"
  /\ \E e \in BackendFaults :
       /\ s_fault' = e
       /\ s_exc' = SummarizerRaised(e)
  /\ s_pc' = "raised"
  /\ UNCHANGED <<s_cfg, s_text, s_source, s_prompt, llm_calls, s_response, s_result>>
  /\ UNCHANGED rvars

\* the task is cancelled, or the coroutine closed, while it is suspended in
\* the await
CancelAwait ==
  /\ s_pc = "awaiting"
  /\ \E e \in Interruptions : s_exc' = SummarizerRaised(e)
  /\ s_pc' = "raised"
  /\ UNCHANGED <<s_cfg, s_text, s_source, s_prompt, llm_calls, s_response, s_fault, s_result>>
  /\ UNCHANGED rvars

\* lines 117-124: extract the content, log its length, return it
NormalizeResponse ==
  /\ s_pc = "normalize"
  /\ LET summary == Normalize(s_response)
     IN  IF HasLen(summary)
         THEN /\ s_result' = summary
              /\ s_pc' = "returned"
              /\ UNCHANGED s_exc
         ELSE /\ s_exc' = SummarizerRaised(
                    Exc("TypeError", EXCEPTION_MRO,
                        "object of type '" \o TypeName(summary) \o "' has no len()"))
              /\ s_pc' = "raised"
              /\ UNCHANGED s_result
  /\ UNCHANGED <<s_cfg, s_text, s_source, s_prompt, llm_calls, s_response, s_fault>>
  /\ UNCHANGED rvars

----------------------------------------------------------------------------
(* Specifications *)

ReaderIdle ==
  /\ r_pc = "idle"
  /\ r_path = ""
  /\ r_doc = NoDoc
  /\ handle_open = FALSE
  /\ open_calls = 0
  /\ r_max_pages = 0
  /\ page_num = 0
  /\ text_content = <<>>
  /\ r_result = <<>>
  /\ r_exc = NoExc

SummarizerIdle ==
  /\ s_pc = "idle"
  /\ s_text = <<>>
  /\ s_source = "none"
  /\ s_prompt = <<>>
  /\ llm_calls = 0
  /\ s_response = NoResponse
  /\ s_fault = NoFault
  /\ s_result = PyNone
  /\ s_exc = NoExc

\* both functions built with their default configuration
Init ==
  /\ r_cfg = <<>>
  /\ fitz_installed \in BOOLEAN
  /\ s_cfg = DefaultSummarizerConfig
  /\ ReaderIdle
  /\ SummarizerIdle

ReadPdf == \E path \in Paths, doc \in Docs : ReadPdfCall(path, doc)

NextReader ==
  \/ ReadPdf
  \/ ImportFitz
  \/ CheckExists
  \/ OpenDoc
  \/ ExtractPage
  \/ CloseAndReturn

NextSummarizer ==
  \/ SummarizeRaw
  \/ InvokeBackend
  \/ BackendAnswers
  \/ BackendRaises
  \/ CancelAwait
  \/ NormalizeResponse

\* the host calls read_pdf and then summarize_text, or summarize_text alone
Next ==
  \/ NextReader
  \/ SummarizeExtracted
  \/ NextSummarizer

Spec == Init /\ [][Next]_vars

\* read_pdf under every configuration
InitReader ==
  /\ r_cfg \in MaxPagesValues
  /\ fitz_installed \in BOOLEAN
  /\ s_cfg = DefaultSummarizerConfig
  /\ ReaderIdle
  /\ SummarizerIdle

SpecReader == InitReader /\ [][NextReader]_vars

\* summarize_text under every configuration
InitSummarizer ==
  /\ r_cfg = <<>>
  /\ fitz_installed = TRUE
  /\ s_cfg \in SummarizerConfigs
  /\ ReaderIdle
  /\ SummarizerIdle

SpecSummarizer == InitSummarizer /\ [][NextSummarizer]_vars

----------------------------------------------------------------------------
(* Reading a returned text back: the page blocks it holds *)

\* a text with nothing but whitespace in it
IsBlankText(t) == \A i \in 1..Len(t) : t[i] \in Whitespace

RECURSIVE Ascending(_)
Ascending(S) ==
  IF S = {} THEN <<>>
  ELSE LET m == CHOOSE x \in S : \A y \in S : x <= y
       IN  <<m>> \o Ascending(S \ {m})

MARKER_START == Str("--- Page ")
BLOCK_SEPARATOR == Str("\n\n")

\* the page number a marker line names, 0 when it names none
PageOfMarker(line) ==
  LET c == {n \in 1..(MaxDocPages + MaxPagesCfg) : PageBlock(n - 1, <<>>) = line}
  IN  IF c = {} THEN 0 ELSE CHOOSE n \in c : TRUE

\* the page blocks of a text, in the order they appear
ParseBlocks(s) ==
  LET pos == Ascending({i \in 1..Len(s) : OccursAt(s, MARKER_START, i)})
      block(k) ==
        LET p == pos[k]
            last == IF k < Len(pos) THEN pos[k + 1] - 1 - Len(BLOCK_SEPARATOR) ELSE Len(s)
            eol == p + Find(SubSeq(s, p, Len(s)), <<10>>) - 1
        IN  [page |-> PageOfMarker(SubSeq(s, p, eol)), text |-> SubSeq(s, eol + 1, last)]
  IN  [k \in 1..Len(pos) |-> block(k)]

\* the non-blank pages among the first n, with their index in the document
RECURSIVE ExpectedBlocks(_, _)
ExpectedBlocks(pages, n) ==
  IF n = 0 THEN <<>>
  ELSE LET rest == ExpectedBlocks(pages, n - 1)
       IN  IF IsBlankText(pages[n].text) THEN rest
           ELSE Append(rest, [page |-> n, text |-> pages[n].text])

\* min(N, K), K unset meaning N
PagesCovered(pages, cfg) ==
  IF cfg = <<>> THEN Len(pages) ELSE Min(Len(pages), cfg[1])

ReaderDone == r_pc \in {"returned", "raised"}
SummarizerDone == s_pc \in {"returned", "raised"}

----------------------------------------------------------------------------
(* Claims about read_pdf *)

\* C1: whenever read_pdf has returned or raised, the document handle it
\* opened has been closed.
C1_HandleReleasedOnExit == ReaderDone => ~handle_open

\* C2: a call with a path that names no existing file fails with the kind
\* FileNotFoundError (NotFound), a kind other than the one an extraction
\* fault is reported with, and the document is never opened.
C2_MissingPathIsNotFound ==
  (r_pc = "raised" /\ fitz_installed /\ ~PathExists(r_path)) =>
     /\ r_exc.kind = "FileNotFoundError"
     /\ r_exc.kind # ReaderExcept(PageFault).kind
     /\ open_calls = 0

\* C3: with max_pages unset or at least 1, the returned text holds exactly
\* one block per non-blank page among the first min(N, K), in page order,
\* each marked with the page's own 1-based index and holding its text.
C3_BlocksAreNonBlankPages ==
  (r_pc = "returned" /\ (r_cfg = <<>> \/ r_cfg[1] >= 1)) =>
     LET expected == ExpectedBlocks(r_doc.pages, PagesCovered(r_doc.pages, r_cfg))
     IN  /\ ParseBlocks(r_result) = expected
         /\ expected # <<>> => OccursAt(r_result, MARKER_START, 1)

\* three pages, the second blank, max_pages unset: blocks for pages 1 and 3
C3_Witness ==
  /\ r_pc = "returned"
  /\ r_cfg = <<>>
  /\ Len(r_doc.pages) = 3
  /\ IsBlankText(r_doc.pages[2].text)
  /\ Len(ParseBlocks(r_result)) = 2
  /\ ParseBlocks(r_result)[1].page = 1
  /\ ParseBlocks(r_result)[2].page = 3

\* every page the loop reads is extracted and blank
AllReadPagesBlank ==
  \A i \in 1..LoopBound(Len(r_doc.pages), MaxPagesOr(r_cfg, Len(r_doc.pages))) :
     r_doc.pages[i].ok /\ IsBlankText(r_doc.pages[i].text)

\* C5: when the document opens and no page read yields non-blank text
\* (zero pages included), read_pdf returns the sentinel and raises nothing;
\* read_pdf never returns the empty string.
C5_EmptyGivesSentinel ==
  /\ r_pc = "returned" => r_result # <<>>
  /\ (ReaderDone /\ open_calls = 1 /\ r_doc.openable /\ AllReadPagesBlank) =>
        /\ r_pc = "returned"
        /\ r_result = NO_TEXT_SENTINEL
        /\ r_exc = NoExc

\* a document whose pages are all whitespace has been read
C5_Witness ==
  /\ r_pc = "returned"
  /\ Len(r_doc.pages) >= 2
  /\ AllReadPagesBlank
  /\ Len(r_doc.pages[1].text) > 0
  /\ page_num >= 2
  /\ r_result = NO_TEXT_SENTINEL

----------------------------------------------------------------------------
(* Claims about the pipeline *)

\* C4: when read_pdf has returned the sentinel, the backend is never
\* invoked in the rest of the pipeline.
C4_NoBackendOnEmptyExtraction ==
  (r_pc = "returned" /\ r_result = NO_TEXT_SENTINEL) => llm_calls = 0

----------------------------------------------------------------------------
(* Claims about summarize_text *)

\* where the embedded source text starts in a prompt
SourceStart(prompt) == Find(prompt, SOURCE_HEADER) + Len(SOURCE_HEADER)

\* what the prompt holds between the source header and the closing rule
SourceSection(prompt) ==
  SubSeq(prompt, SourceStart(prompt), Len(prompt) - Len(PROMPT_TAIL))

\* the instruction clause of a prompt: the line before "Target length"
InstructionClause(prompt) ==
  SubSeq(prompt, Len(PROMPT_HEAD) + 1, Find(prompt, Str("\nTarget length:")) - 1)

\* C6: for a text longer than 10,000 characters, the prompt holds the first
\* 10,000 characters directly followed by the marker "...".
C6_MarkerDirectlyAfterExcerpt ==
  (s_pc = "invoke" /\ Len(s_text) > TRUNCATE_AT) =>
     OccursAt(s_prompt, SubSeq(s_text, 1, TRUNCATE_AT) \o Str("..."), SourceStart(s_prompt))

\* C7: the source-text section starts with the first min(len(text), 10,000)
\* characters of the text, holds no more of the text after them, and ends
\* with the marker "..." exactly when len(text) > 10,000.
C7_ExcerptBoundedMarkerIffLong ==
  s_pc = "invoke" =>
     LET sec == SourceSection(s_prompt)
         m == IF Len(s_text) < TRUNCATE_AT THEN Len(s_text) ELSE TRUNCATE_AT
         rest == SubSeq(sec, m + 1, Len(sec))
     IN  /\ OccursAt(s_prompt, PROMPT_TAIL, Len(s_prompt) - Len(PROMPT_TAIL) + 1)
         /\ SubSeq(sec, 1, m) = SubSeq(s_text, 1, m)
         /\ rest \in {AFTER_EXCERPT, AFTER_EXCERPT \o Str("...")}
         /\ (rest = AFTER_EXCERPT \o Str("...")) <=> (Len(s_text) > TRUNCATE_AT)

\* a text one character over the limit has been embedded, with the marker
C7_Witness ==
  /\ s_pc = "invoke"
  /\ Len(s_text) = TRUNCATE_AT + 1
  /\ Len(SourceSection(s_prompt)) = TRUNCATE_AT + Len(AFTER_EXCERPT) + 3
  /\ OccursAt(s_prompt, Str("...") \o PROMPT_TAIL, Len(s_prompt) - Len(PROMPT_TAIL) - 2)

\* C8: once the backend has answered, summarize_text returns, and what it
\* returns is a string: the content of the response when it has one, the
\* string form of the response otherwise.
C8_NormalizationNeverFails ==
  (SummarizerDone /\ s_response \in Responses) =>
     /\ s_pc = "returned"
     /\ s_result.t = "str"
     /\ s_result = IF s_response.has_content THEN s_response.content
                   ELSE PyStr(s_response.repr)

\* the exception that left summarize_text is a RuntimeError made from e:
\* e is its context and its message ends with the message of e
ReportsFault(exc, e) ==
  /\ exc.kind = "RuntimeError"
  /\ exc.context = e.kind
  /\ Len(exc.msg) > Len(e.msg)
  /\ OccursAt(exc.msg, e.msg, Len(exc.msg) - Len(e.msg) + 1)

\* C9: the backend is invoked at most once per call; when it raises, the
\* call ends raising a RuntimeError whose context is the backend's
\* exception and whose message ends with that exception's message, after
\* exactly one backend call; a call that returns had no backend fault.
C9_BackendFaultRaisedOnce ==
  /\ llm_calls <= 1
  /\ s_fault # NoFault =>
        /\ s_pc = "raised"
        /\ llm_calls = 1
        /\ ReportsFault(s_exc, s_fault)
  /\ s_pc = "returned" => s_fault = NoFault

\* the class of e derives from Exception: Exception is among the classes
\* of its method resolution order
DerivesFromException(e) == "Exception" \in {e.mro[i] : i \in DOMAIN e.mro}

\* C9 (amended): the backend is invoked at most once per call; when it
\* raises, the call ends raising after exactly one backend call: for an
\* exception whose class derives from Exception (whatever its name, a
\* concurrent.futures CancelledError or an ExceptionGroup included) a
\* RuntimeError whose context is that exception and whose message ends
\* with its message, for any other (asyncio's CancelledError,
\* KeyboardInterrupt) that exception itself, unchanged; a call that
\* returns had no backend fault.
C9_ExceptionFaultReportedOnce ==
  /\ llm_calls <= 1
  /\ s_fault # NoFault =>
        /\ s_pc = "raised"
        /\ llm_calls = 1
        /\ DerivesFromException(s_fault) => ReportsFault(s_exc, s_fault)
        /\ ~DerivesFromException(s_fault) =>
              (s_exc.kind = s_fault.kind /\ s_exc.msg = s_fault.msg
               /\ s_exc.context = "None")
  /\ s_pc = "returned" => s_fault = NoFault

\* the backend has raised an exception named CancelledError that derives
\* from Exception and summarize_text has reported it as a RuntimeError
C9_Witness ==
  /\ s_pc = "raised"
  /\ s_fault.kind = "concurrent.futures._base.CancelledError"
  /\ s_exc.kind = "RuntimeError"
  /\ llm_calls = 1

\* C10: for a summary_style outside brief, comprehensive and detailed the
\* prompt is built, its instruction clause is the comprehensive one, and
\* the whole prompt is the prompt of the comprehensive style.
C10_UnknownStyleIsComprehensive ==
  (s_pc = "invoke" /\ s_cfg.summary_style \notin {"brief", "comprehensive", "detailed"}) =>
     /\ InstructionClause(s_prompt) =
          Str("Create a comprehensive summary that captures all major points.")
     /\ s_prompt = BuildPrompt([s_cfg EXCEPT !.summary_style = "comprehensive"], s_text)

\* a prompt has been built under the style "extreme"
C10_Witness ==
  /\ s_pc = "invoke"
  /\ s_cfg.summary_style = "extreme"
  /\ InstructionClause(s_prompt) = style_instructions["comprehensive"]

====
